---- MODULE Spec2Model ----
(***************************************************************************)
(* The subgraph orchestrator of scripts/agentica_patterns/                 *)
(* subgraph_orchestrator.py and the checkpoint service of                  *)
(* scripts/agentica_patterns/checkpoint_service.py as state machines.      *)
(*                                                                         *)
(* The orchestrator runs on one asyncio event loop: code between two       *)
(* awaits is atomic, so every action below is one such stretch of code.    *)
(* The agent behind _run_agent is opaque: an invocation is an interval     *)
(* that begins when _execute_node awaits _run_agent and ends with a result *)
(* or with an exception.                                                   *)
(*                                                                         *)
(* The checkpoint service is a second, independent object.  Its methods    *)
(* never suspend (the file access is synchronous), so each call is one     *)
(* action.  Its directory is shared with whatever else runs on the         *)
(* machine: the process can be restarted, and the files can be edited or   *)
(* removed from outside the service.                                       *)
(***************************************************************************)
EXTENDS Integers, FiniteSets, Sequences, TLC

VARIABLES
    subgraphs,  \* SubgraphOrchestrator.subgraphs: subgraph id -> reference into execs
    execs,      \* the SubgraphExecution objects ever constructed, by reference
    calls,      \* the execute() coroutines ever started, with their node tasks
    now,        \* the wall clock read by datetime.utcnow()
    response,   \* what the synchronous API call of the last step returned or raised
    files,        \* checkpoint_dir: checkpoint id -> the <id>.json file and its mtime
    _checkpoints, \* CheckpointService._checkpoints: checkpoint id -> Checkpoint
    issued        \* checkpoint id -> the arguments of the last create that drew the id

orchestrator_vars == <<subgraphs, execs, calls>>
checkpoint_vars == <<files, _checkpoints, issued>>
vars == <<subgraphs, execs, calls, now, response, files, _checkpoints, issued>>

----------------------------------------------------------------------------
(* Bounds of the model *)

MaxOps == 3        \* create_subgraph and execute calls made in one run
MaxTime == 1       \* last reading of the clock
MaxStalls == 2     \* stalled iterations of the poll loop that are counted

----------------------------------------------------------------------------
(* Inputs *)

SubgraphIds == {"g1", "g2"}
NodeIds == {"A", "B", "C"}

\* max_retries of a SubgraphNode that is given none
DefaultMaxRetries == 3

\* The node lists given to create_subgraph: depends_on of every node, and the
\* max_retries its nodes are constructed with
Chain == [deps |-> ("A" :> {}) @@ ("B" :> {"A"}) @@ ("C" :> {"B"}),
          max_retries |-> 1]
FanOut == [deps |-> ("A" :> {}) @@ ("B" :> {"A"}) @@ ("C" :> {"A"}),
           max_retries |-> 1]
Cycle == [deps |-> ("A" :> {"B"}) @@ ("B" :> {"A"}),
          max_retries |-> 1]
Dangling == [deps |-> ("A" :> {}) @@ ("B" :> {"X"}),
             max_retries |-> 2]
Solo == [deps |-> ("A" :> {}),
         max_retries |-> DefaultMaxRetries]
Graphs == {Chain, FanOut, Cycle, Dangling, Solo}

EmptyDict == [k \in {} |-> ""]
InitialStates == {[url |-> "http://x"], [url |-> "http://y"]}

\* str(uuid4())[:8] of the r-th execution constructed: a fresh token
ExecutionId(r) == "uuid" \o ToString(r)

\* the ids asked of get_status: subgraph ids and execution ids
QueryIds == SubgraphIds \cup {ExecutionId(1)}

None == -1
NotFound == [error |-> "Execution not found"]
NoResponse == [op |-> "none"]

Min(a, b) == IF a < b THEN a ELSE b
Put(f, k, v) == [x \in DOMAIN f \cup {k} |-> IF x = k THEN v ELSE f[x]]

----------------------------------------------------------------------------
(* Data *)

SubgraphNode(deps, maxRetries) ==
    [depends_on |-> deps, retry_count |-> 0, max_retries |-> maxRetries,
     status |-> "pending"]

\* SubgraphExecution(id, subgraph_id, nodes, edges) with the defaults of the
\* other fields; the edges given are those of depends_on
SubgraphExecution(r, sid, graph) ==
    [id |-> ExecutionId(r),
     subgraph_id |-> sid,
     nodes |-> [n \in DOMAIN graph.deps |->
                   SubgraphNode(graph.deps[n], graph.max_retries)],
     edges |-> {e \in (NodeIds \cup {"X"}) \X NodeIds :
                    e[2] \in DOMAIN graph.deps /\ e[1] \in graph.deps[e[2]]},
     state |-> EmptyDict,
     node_results |-> EmptyDict,
     status |-> "pending",
     started_at |-> None,
     completed_at |-> None]

Init ==
    /\ subgraphs = EmptyDict
    /\ execs = << >>
    /\ calls = << >>
    /\ now = 0
    /\ response = NoResponse
    /\ files = EmptyDict
    /\ _checkpoints = EmptyDict
    /\ issued = EmptyDict

----------------------------------------------------------------------------
(* create_subgraph *)

\* create_subgraph keeping the results of the record it replaces
create_subgraph_Merge(sid, graph) ==
    /\ Len(execs) + Len(calls) < MaxOps
    /\ LET r == Len(execs) + 1
           fresh == SubgraphExecution(r, sid, graph)
           execution == IF sid \in DOMAIN subgraphs
                        THEN [fresh EXCEPT !.node_results =
                                              execs[subgraphs[sid]].node_results]
                        ELSE fresh
       IN /\ execs' = Append(execs, execution)
          /\ subgraphs' = Put(subgraphs, sid, r)
          /\ response' = [op |-> "create_subgraph", arg |-> sid, result |-> r]
    /\ UNCHANGED <<calls, now, checkpoint_vars>>

create_subgraph(sid, graph) ==
    /\ Len(execs) + Len(calls) < MaxOps
    /\ LET r == Len(execs) + 1
           execution == SubgraphExecution(r, sid, graph)
       IN /\ execs' = Append(execs, execution)
          /\ subgraphs' = Put(subgraphs, sid, r)
          /\ response' = [op |-> "create_subgraph", arg |-> sid, result |-> r]
    /\ UNCHANGED <<calls, now, checkpoint_vars>>

----------------------------------------------------------------------------
(* execute *)

\* _get_executable_nodes without the test of the dependencies
_get_executable_nodes_NoDeps(execution) ==
    {n \in DOMAIN execution.nodes : n \notin DOMAIN execution.node_results}

\* _get_executable_nodes handing out one ready node at a time
_get_executable_nodes_OneAtATime(execution) ==
    LET ready == {n \in DOMAIN execution.nodes :
                     /\ \A dep \in execution.nodes[n].depends_on :
                             dep \in DOMAIN execution.node_results
                     /\ n \notin DOMAIN execution.node_results}
    IN IF ready = {} THEN {} ELSE {CHOOSE n \in ready : TRUE}

_get_executable_nodes(execution) ==
    {n \in DOMAIN execution.nodes :
        /\ \A dep \in execution.nodes[n].depends_on :
                dep \in DOMAIN execution.node_results
        /\ n \notin DOMAIN execution.node_results}

\* the test of lines 107-111 with any() for all()
AllProcessed_Some(execution) ==
    \E n \in DOMAIN execution.nodes :
        \/ n \in DOMAIN execution.node_results
        \/ execution.nodes[n].status = "failed"

\* the test of lines 107-111: every node has a result or is FAILED
AllProcessed(execution) ==
    \A n \in DOMAIN execution.nodes :
        \/ n \in DOMAIN execution.node_results
        \/ execution.nodes[n].status = "failed"

NoError == [node |-> "none"]
\* the input of a task that is not inside an agent call
NoInput == [state |-> EmptyDict, deps |-> EmptyDict]

NewTask ==
    [pc |-> "created", invoked |-> 0, err |-> NoError, delay |-> 0,
     input |-> NoInput]

\* What execute returns: the execution object, as it is when execute returns
Returned(execution) ==
    [status |-> execution.status,
     results |-> DOMAIN execution.node_results,
     started_at |-> execution.started_at,
     completed_at |-> execution.completed_at]

\* lines 122-123 without the completion timestamp
Complete_NoTimestamp(execution) ==
    [execution EXCEPT !.status = "completed"]

\* lines 122-123: the loop is left
Complete(execution) ==
    [execution EXCEPT !.status = "completed", !.completed_at = now]

\* The while loop marking the execution WAITING before the sleep of line 113
RunLoop_Waiting(execution, frame) ==
    LET executable == _get_executable_nodes(execution) IN
    IF executable = {}
    THEN IF AllProcessed(execution)
         THEN LET done == Complete(execution)
              IN [execution |-> done,
                  frame |-> [frame EXCEPT !.pc = "returned",
                                          !.ret = Returned(done)]]
         ELSE [execution |-> [execution EXCEPT !.status = "waiting"],
               frame |-> [frame EXCEPT !.pc = "sleeping",
                                       !.stalls = Min(@ + 1, MaxStalls)]]
    ELSE [execution |-> execution,
          frame |-> [frame EXCEPT
                        !.pc = "gathering",
                        !.wave = executable,
                        !.tasks = [n \in DOMAIN @ \cup executable |->
                                      IF n \in executable THEN NewTask ELSE @[n]]]]

\* One pass of the while loop, from line 105 to the next await or to the return
RunLoop(execution, frame) ==
    LET executable == _get_executable_nodes(execution) IN
    IF executable = {}
    THEN IF AllProcessed(execution)
         THEN LET done == Complete(execution)
              IN [execution |-> done,
                  frame |-> [frame EXCEPT !.pc = "returned",
                                          !.ret = Returned(done)]]
         ELSE [execution |-> execution,
               frame |-> [frame EXCEPT !.pc = "sleeping",
                                       !.stalls = Min(@ + 1, MaxStalls)]]
    ELSE [execution |-> execution,
          frame |-> [frame EXCEPT
                        !.pc = "gathering",
                        !.wave = executable,
                        !.tasks = [n \in DOMAIN @ \cup executable |->
                                      IF n \in executable THEN NewTask ELSE @[n]]]]

NewFrame(r, initial_state) ==
    [exec |-> r, pc |-> "started", wave |-> {}, tasks |-> EmptyDict,
     stalls |-> 0, ret |-> NoResponse, err |-> NoError,
     initial_state |-> initial_state]

\* execute starting every run from an empty node_results
execute_Resets(sid, initial_state) ==
    /\ Len(execs) + Len(calls) < MaxOps
    /\ sid \in DOMAIN subgraphs
    /\ LET r == subgraphs[sid]
           started == [execs[r] EXCEPT !.state = initial_state,
                                       !.status = "running",
                                       !.started_at = now,
                                       !.node_results = EmptyDict]
           next == RunLoop(started, NewFrame(r, initial_state))
       IN /\ execs' = [execs EXCEPT ![r] = next.execution]
          /\ calls' = Append(calls, next.frame)
    /\ response' = NoResponse
    /\ UNCHANGED <<subgraphs, now, checkpoint_vars>>

\* execute(sid, initial_state) up to its first await (or its return)
execute(sid, initial_state) ==
    /\ Len(execs) + Len(calls) < MaxOps
    /\ sid \in DOMAIN subgraphs
    /\ LET r == subgraphs[sid]
           started == [execs[r] EXCEPT !.state = initial_state,
                                       !.status = "running",
                                       !.started_at = now]
           next == RunLoop(started, NewFrame(r, initial_state))
       IN /\ execs' = [execs EXCEPT ![r] = next.execution]
          /\ calls' = Append(calls, next.frame)
    /\ response' = NoResponse
    /\ UNCHANGED <<subgraphs, now, checkpoint_vars>>

\* execute of an id that is not registered registering an empty graph under it
execute_unknown_Registers(sid) ==
    /\ sid \notin DOMAIN subgraphs
    /\ Len(execs) + Len(calls) < MaxOps
    /\ LET r == Len(execs) + 1 IN
          /\ execs' = Append(execs, SubgraphExecution(r, sid, [deps |-> EmptyDict,
                                                              max_retries |-> 0]))
          /\ subgraphs' = Put(subgraphs, sid, r)
    /\ response' = [op |-> "execute", arg |-> sid, raised |-> "ValueError"]
    /\ UNCHANGED <<calls, now, checkpoint_vars>>

\* execute(sid, ...) of an id that is not registered: ValueError, line 96
execute_unknown(sid) ==
    /\ sid \notin DOMAIN subgraphs
    /\ response' = [op |-> "execute", arg |-> sid, raised |-> "ValueError"]
    /\ UNCHANGED <<subgraphs, execs, calls, now, checkpoint_vars>>

Calls == DOMAIN calls

\* asyncio.gather returned: every task of the wave is done; the loop goes on
WaveDone(c) ==
    /\ c \in Calls
    /\ calls[c].pc = "gathering"
    /\ \A n \in calls[c].wave : calls[c].tasks[n].pc = "done"
    /\ LET r == calls[c].exec
           next == RunLoop(execs[r], calls[c])
       IN /\ execs' = [execs EXCEPT ![r] = next.execution]
          /\ calls' = [calls EXCEPT ![c] = next.frame]
    /\ response' = NoResponse
    /\ UNCHANGED <<subgraphs, now, checkpoint_vars>>

\* asyncio.gather raised the first exception of a task of the wave: execute
\* propagates it; the other tasks of the wave are not cancelled
WaveRaised(c) ==
    /\ c \in Calls
    /\ calls[c].pc = "gathering"
    /\ \E n \in calls[c].wave :
          /\ calls[c].tasks[n].pc = "raised"
          /\ calls' = [calls EXCEPT ![c].pc = "raised",
                                    ![c].err = calls[c].tasks[n].err]
    /\ response' = NoResponse
    /\ UNCHANGED <<subgraphs, execs, now, checkpoint_vars>>

\* asyncio.sleep(0.1) of line 113 is over: the loop goes on
PollWake(c) ==
    /\ c \in Calls
    /\ calls[c].pc = "sleeping"
    /\ LET r == calls[c].exec
           next == RunLoop(execs[r], calls[c])
       IN /\ execs' = [execs EXCEPT ![r] = next.execution]
          /\ calls' = [calls EXCEPT ![c] = next.frame]
    /\ response' = NoResponse
    /\ UNCHANGED <<subgraphs, now, checkpoint_vars>>

----------------------------------------------------------------------------
(* _execute_node *)

\* _prepare_input, lines 151-163 (no input_mapper): key 'state' holds a copy of
\* the shared state, and every dependency that has a result is a key bound
\* to that result (deps: the keys other than 'state')
_prepare_input(execution, node) ==
    [state |-> execution.state,
     deps |-> [dep \in node.depends_on \cap DOMAIN execution.node_results |->
                   execution.node_results[dep]]]

\* lines 128-135: the input is prepared and the agent is invoked
InvokeAgent(c, n) ==
    LET execution == execs[calls[c].exec] IN
    calls' = [calls EXCEPT ![c].tasks[n].pc = "running",
                           ![c].tasks[n].invoked = @ + 1,
                           ![c].tasks[n].delay = 0,
                           ![c].tasks[n].input =
                               _prepare_input(execution, execution.nodes[n])]

\* the task of node n starts to run
TaskStart(c, n) ==
    /\ c \in Calls
    /\ n \in DOMAIN calls[c].tasks
    /\ calls[c].tasks[n].pc = "created"
    /\ InvokeAgent(c, n)
    /\ response' = NoResponse
    /\ UNCHANGED <<subgraphs, execs, now, checkpoint_vars>>

\* what the agent returns to the k-th invocation of node n by call c
AgentResult(c, n, k) == [by |-> c, node |-> n, attempt |-> k]
AgentError(c, n, k) == [node |-> n, by |-> c, attempt |-> k]

\* lines 138-141: the agent returned; the result is recorded
AgentSucceeds(c, n) ==
    /\ c \in Calls
    /\ n \in DOMAIN calls[c].tasks
    /\ calls[c].tasks[n].pc = "running"
    /\ LET r == calls[c].exec
           output == AgentResult(c, n, calls[c].tasks[n].invoked)
       IN execs' = [execs EXCEPT ![r].node_results = Put(@, n, output)]
    /\ calls' = [calls EXCEPT ![c].tasks[n].pc = "done",
                              ![c].tasks[n].input = NoInput]
    /\ response' = NoResponse
    /\ UNCHANGED <<subgraphs, now, checkpoint_vars>>

\* line 144 with <= for <
RetriesLeft_OffByOne(node, retry_count) == retry_count <= node.max_retries

\* line 144 without the retry
RetriesLeft_Never(node, retry_count) == FALSE

\* line 144: the node may be tried again
RetriesLeft(node, retry_count) == retry_count < node.max_retries

\* line 145 with the retry counter as it was before line 143
Backoff_BeforeIncrement(retry_count) == 2 ^ (retry_count - 1)

\* line 145: the argument of asyncio.sleep
Backoff(retry_count) == 2 ^ retry_count

\* lines 142-149: the agent raised
AgentFails(c, n) ==
    /\ c \in Calls
    /\ n \in DOMAIN calls[c].tasks
    /\ calls[c].tasks[n].pc = "running"
    /\ LET r == calls[c].exec
           node == execs[r].nodes[n]
           retry_count == node.retry_count + 1
       IN IF RetriesLeft(node, retry_count)
          THEN /\ execs' = [execs EXCEPT ![r].nodes[n].retry_count = retry_count]
               /\ calls' = [calls EXCEPT ![c].tasks[n].pc = "backoff",
                                         ![c].tasks[n].input = NoInput,
                                         ![c].tasks[n].delay = Backoff(retry_count)]
          ELSE /\ execs' = [execs EXCEPT ![r].nodes[n].retry_count = retry_count,
                                         ![r].status = "failed"]
               /\ calls' = [calls EXCEPT
                     ![c].tasks[n].pc = "raised",
                     ![c].tasks[n].input = NoInput,
                     ![c].tasks[n].err = AgentError(c, n, calls[c].tasks[n].invoked)]
    /\ response' = NoResponse
    /\ UNCHANGED <<subgraphs, now, checkpoint_vars>>

\* line 146: the backoff sleep is over, _execute_node runs again
Retry(c, n) ==
    /\ c \in Calls
    /\ n \in DOMAIN calls[c].tasks
    /\ calls[c].tasks[n].pc = "backoff"
    /\ InvokeAgent(c, n)
    /\ response' = NoResponse
    /\ UNCHANGED <<subgraphs, execs, now, checkpoint_vars>>

----------------------------------------------------------------------------
(* get_status *)

\* get_status counting the nodes for the results
StatusOf_CountsNodes(id) ==
    IF id \notin DOMAIN subgraphs
    THEN NotFound
    ELSE LET execution == execs[subgraphs[id]] IN
         [id |-> execution.id,
          subgraph_id |-> execution.subgraph_id,
          status |-> execution.status,
          nodes_completed |-> Cardinality(DOMAIN execution.nodes),
          total_nodes |-> Cardinality(DOMAIN execution.nodes),
          started_at |-> execution.started_at,
          completed_at |-> execution.completed_at]

StatusOf(id) ==
    IF id \notin DOMAIN subgraphs
    THEN NotFound
    ELSE LET execution == execs[subgraphs[id]] IN
         [id |-> execution.id,
          subgraph_id |-> execution.subgraph_id,
          status |-> execution.status,
          nodes_completed |-> Cardinality(DOMAIN execution.node_results),
          total_nodes |-> Cardinality(DOMAIN execution.nodes),
          started_at |-> execution.started_at,
          completed_at |-> execution.completed_at]

get_status(id) ==
    /\ response' = [op |-> "get_status", arg |-> id, result |-> StatusOf(id)]
    /\ UNCHANGED <<subgraphs, execs, calls, now, checkpoint_vars>>

----------------------------------------------------------------------------
(* Time passes *)

Tick ==
    /\ now < MaxTime
    /\ now' = now + 1
    /\ response' = NoResponse
    /\ UNCHANGED <<subgraphs, execs, calls, checkpoint_vars>>

----------------------------------------------------------------------------

\* The steps of create_subgraph, of execute and of its node tasks, and the clock
Run ==
    \/ \E sid \in SubgraphIds, graph \in Graphs : create_subgraph(sid, graph)
    \/ \E sid \in SubgraphIds, s \in InitialStates : execute(sid, s)
    \/ \E c \in Calls : WaveDone(c)
    \/ \E c \in Calls : WaveRaised(c)
    \/ \E c \in Calls : PollWake(c)
    \/ \E c \in Calls, n \in NodeIds : TaskStart(c, n)
    \/ \E c \in Calls, n \in NodeIds : AgentSucceeds(c, n)
    \/ \E c \in Calls, n \in NodeIds : AgentFails(c, n)
    \/ \E c \in Calls, n \in NodeIds : Retry(c, n)
    \/ Tick

Next ==
    \/ Run
    \/ \E sid \in SubgraphIds : execute_unknown(sid)
    \/ \E id \in QueryIds : get_status(id)

Spec == Init /\ [][Next]_vars

\* The event loop runs every coroutine that can run, every sleep ends, and the
\* agent answers every invocation (with a result or with an exception)
\* (an execute call needs a registered subgraph: at most MaxOps - 1 calls exist)
Fairness ==
    \A c \in 1..(MaxOps - 1) :
        /\ WF_vars(WaveDone(c))
        /\ WF_vars(WaveRaised(c))
        /\ WF_vars(PollWake(c))
        /\ \A n \in NodeIds :
              /\ WF_vars(TaskStart(c, n))
              /\ WF_vars(AgentSucceeds(c, n) \/ AgentFails(c, n))
              /\ WF_vars(Retry(c, n))

\* The runs of the orchestrator without the read-only calls, under fair scheduling
FairSpec == Init /\ [][Run]_vars /\ Fairness

----------------------------------------------------------------------------
(* The checkpoint service: values *)

\* the values str(uuid4())[:8] of line 61 can take
CheckpointIds == {"c1", "c2"}
AgentIds == {"agent"}
SessionIds == {"s1", "s2"}

\* no checkpoint id: the default of parent_id and of parent_checkpoint_id
NoneId == "None"
ParentIds == {NoneId, "c1"}

\* Python values of a state: an int, a list of one int, a tuple of one int
IntValue(i) == [type |-> "int", v |-> i]
ListValue(i) == [type |-> "list", v |-> i]
TupleValue(i) == [type |-> "tuple", v |-> i]

\* A Python dict is the sequence of its items in insertion order
\* {"b": 1, "a": 2} and {"a": (1,)}
UnsortedState == <<<<"b", IntValue(1)>>, <<"a", IntValue(2)>>>>
TupleState == <<<<"a", TupleValue(1)>>>>
States == {UnsortedState, TupleState}

\* dict.__eq__: the same items, in whatever order
DictEq(a, b) == {a[i] : i \in DOMAIN a} = {b[i] : i \in DOMAIN b}

\* the order of the keys under sorted()
KeyRank == ("a" :> 1) @@ ("b" :> 2)

\* json encodes a tuple as it encodes a list
JsonValue(x) == IF x.type = "tuple" THEN ListValue(x.v) ELSE x

\* sorted(items) by key: the item of the least key first
RECURSIVE SortedItems(_)
SortedItems(items) ==
    IF items = << >> THEN << >>
    ELSE LET i == CHOOSE i \in DOMAIN items :
                     \A j \in DOMAIN items :
                         KeyRank[items[i][1]] <= KeyRank[items[j][1]]
             rest == [j \in 1..(Len(items) - 1) |->
                         IF j < i THEN items[j] ELSE items[j + 1]]
         IN <<items[i]>> \o SortedItems(rest)

\* json.dumps(state) and json.dumps(state, sort_keys=True): the document, as
\* the sequence of its members
JsonDumps(state, sort_keys) ==
    LET items == IF sort_keys THEN SortedItems(state) ELSE state
    IN [i \in DOMAIN items |-> <<items[i][1], JsonValue(items[i][2])>>]

\* json.load: the dict of the members of the document, in the document's order
JsonLoads(document) == document

\* hashlib.sha256(...).hexdigest(), taken to be free of collisions
Sha256(text) == <<"sha256", text>>

\* _compute_checksum
_compute_checksum(state) == Sha256(JsonDumps(state, TRUE))

\* datetime.now(timezone.utc).isoformat(): the strings of one UTC offset compare
\* as the instants they denote, so the reading of the clock stands for the string
IsoFormat(t) == t

\* Checkpoint(...)
Checkpoint(id, agent_id, session_id, state, metadata, created_at, checksum) ==
    [id |-> id, agent_id |-> agent_id, session_id |-> session_id,
     state |-> state, metadata |-> metadata, created_at |-> created_at,
     checksum |-> checksum]

\* CheckpointMetadata(...); parent_checkpoint_id keeps its default
CheckpointMetadata(id, agent_id, session_id, created_at, state_size, state_hash) ==
    [id |-> id, agent_id |-> agent_id, session_id |-> session_id,
     created_at |-> created_at, state_size |-> state_size,
     state_hash |-> state_hash, parent_checkpoint_id |-> NoneId]

\* what get and restore return for None
NoCheckpoint == [id |-> NoneId]

\* the content of a file that open(path, 'w') of line 75 has truncated and
\* json.dump has not written to its end: not a JSON document
Truncated == [id |-> "truncated"]

\* json.load of such a file raises; the exception leaves get and restore
JSONDecodeError == [id |-> "JSONDecodeError"]

\* f without the key k (dict.pop(k, None), Path.unlink)
Drop(f, k) == [x \in DOMAIN f \ {k} |-> f[x]]

----------------------------------------------------------------------------
(* The checkpoint service: operations *)

\* the record json.dump writes at lines 75-84: parent_id is not among its fields
FileRecord(checkpoint) ==
    [id |-> checkpoint.id, agent_id |-> checkpoint.agent_id,
     session_id |-> checkpoint.session_id,
     state |-> JsonDumps(checkpoint.state, FALSE),
     metadata |-> checkpoint.metadata,
     created_at |-> checkpoint.created_at,
     checksum |-> checkpoint.checksum]

\* create: the id is whatever uuid4 draws, the file of that id is (over)written
\* and the cache entry of that id is set
create(agent_id, session_id, state, parent_id) ==
    \E checkpoint_id \in CheckpointIds :
        LET checksum == _compute_checksum(state)
            checkpoint == Checkpoint(checkpoint_id, agent_id, session_id, state,
                                     EmptyDict, IsoFormat(now), checksum)
        IN /\ files' = Put(files, checkpoint_id,
                           [data |-> FileRecord(checkpoint), mtime |-> now])
           /\ _checkpoints' = Put(_checkpoints, checkpoint_id, checkpoint)
           /\ issued' = Put(issued, checkpoint_id,
                            [state |-> state, parent_id |-> parent_id])
           /\ response' = [op |-> "create", result |-> checkpoint]
           /\ UNCHANGED <<orchestrator_vars, now>>

\* create meeting a storage error at lines 75-84: either open raises and the
\* directory is as it was, or the file of the drawn id has been opened for
\* writing (and so truncated) when the error comes; line 86 is not reached
create_fails ==
    \E checkpoint_id \in CheckpointIds, opened \in BOOLEAN :
        /\ files' = IF opened
                     THEN Put(files, checkpoint_id,
                              [data |-> Truncated, mtime |-> now])
                     ELSE files
        /\ response' = [op |-> "create", arg |-> checkpoint_id,
                        raised |-> "OSError"]
        /\ UNCHANGED <<orchestrator_vars, now, _checkpoints, issued>>

\* Checkpoint(**data) of line 100
LoadCheckpoint(data) ==
    Checkpoint(data.id, data.agent_id, data.session_id, JsonLoads(data.state),
               data.metadata, data.created_at, data.checksum)

\* what get(checkpoint_id) returns; it assigns nothing
Get(checkpoint_id) ==
    IF checkpoint_id \in DOMAIN _checkpoints
    THEN _checkpoints[checkpoint_id]
    ELSE IF checkpoint_id \notin DOMAIN files
         THEN NoCheckpoint
         ELSE IF files[checkpoint_id].data = Truncated
              THEN JSONDecodeError
              ELSE LoadCheckpoint(files[checkpoint_id].data)

get(checkpoint_id) ==
    /\ response' = [op |-> "get", arg |-> checkpoint_id,
                    cached |-> checkpoint_id \in DOMAIN _checkpoints,
                    result |-> Get(checkpoint_id)]
    /\ UNCHANGED <<orchestrator_vars, now, checkpoint_vars>>

\* what restore(checkpoint_id) returns or raises
Restore(checkpoint_id) ==
    LET checkpoint == Get(checkpoint_id) IN
    IF checkpoint = NoCheckpoint
    THEN [returned |-> "None", state |-> << >>, verified |-> << >>]
    ELSE IF checkpoint = JSONDecodeError
    THEN [returned |-> "JSONDecodeError", state |-> << >>, verified |-> << >>]
    ELSE IF _compute_checksum(checkpoint.state) # checkpoint.checksum
         THEN [returned |-> "ValueError", state |-> << >>, verified |-> << >>]
         ELSE [returned |-> "state", state |-> checkpoint.state,
               verified |-> _compute_checksum(checkpoint.state)]

restore(checkpoint_id) ==
    /\ response' = [op |-> "restore", arg |-> checkpoint_id,
                    cached |-> checkpoint_id \in DOMAIN _checkpoints,
                    result |-> Restore(checkpoint_id)]
    /\ UNCHANGED <<orchestrator_vars, now, checkpoint_vars>>

\* the metadata list_by_session builds of one file
MetadataOf(data) ==
    CheckpointMetadata(data.id, data.agent_id, data.session_id, data.created_at,
                       Len(data.state), data.checksum)

\* list_by_session sorting without reverse=True
list_by_session_Ascending(session_id) ==
    LET found == {id \in DOMAIN files : files[id].data.session_id = session_id}
        n == Cardinality(found)
    IN \E order \in [1..n -> found] :
          /\ \A i, j \in 1..n : i # j => order[i] # order[j]
          /\ \A i, j \in 1..n :
                i < j => files[order[i]].data.created_at
                             <= files[order[j]].data.created_at
          /\ response' = [op |-> "list_by_session", arg |-> session_id,
                          result |-> [i \in 1..n |-> MetadataOf(files[order[i]].data)]]
          /\ UNCHANGED <<orchestrator_vars, now, checkpoint_vars>>

\* sorted(..., key=created_at, reverse=True) of the files glob yields in some order
list_by_session(session_id) ==
    IF \E id \in DOMAIN files : files[id].data = Truncated
    THEN \* json.load of line 119 raises on a file that is not a document
         /\ response' = [op |-> "list_by_session", arg |-> session_id,
                         raised |-> "JSONDecodeError"]
         /\ UNCHANGED <<orchestrator_vars, now, checkpoint_vars>>
    ELSE
    LET found == {id \in DOMAIN files : files[id].data.session_id = session_id}
        n == Cardinality(found)
    IN \E order \in [1..n -> found] :
          /\ \A i, j \in 1..n : i # j => order[i] # order[j]
          /\ \A i, j \in 1..n :
                i < j => files[order[i]].data.created_at
                             >= files[order[j]].data.created_at
          /\ response' = [op |-> "list_by_session", arg |-> session_id,
                          result |-> [i \in 1..n |-> MetadataOf(files[order[i]].data)]]
          /\ UNCHANGED <<orchestrator_vars, now, checkpoint_vars>>

\* delete leaving the cache entry where it is
Delete_KeepsCache(disk, cache, checkpoint_id) ==
    IF checkpoint_id \in DOMAIN disk
    THEN [files |-> Drop(disk, checkpoint_id), cache |-> cache, result |-> TRUE]
    ELSE [files |-> disk, cache |-> cache, result |-> FALSE]

\* the body of delete, on the directory and the cache it is given
Delete(disk, cache, checkpoint_id) ==
    IF checkpoint_id \in DOMAIN disk
    THEN [files |-> Drop(disk, checkpoint_id),
          cache |-> Drop(cache, checkpoint_id), result |-> TRUE]
    ELSE [files |-> disk, cache |-> cache, result |-> FALSE]

delete(checkpoint_id) ==
    LET after == Delete(files, _checkpoints, checkpoint_id) IN
    /\ files' = after.files
    /\ _checkpoints' = after.cache
    /\ response' = [op |-> "delete", arg |-> checkpoint_id,
                    result |-> after.result]
    /\ UNCHANGED <<orchestrator_vars, now, issued>>

\* the loop of gc over the paths still to visit
RECURSIVE GcLoop(_, _, _, _, _)
GcLoop(paths, cutoff, disk, cache, deleted) ==
    IF paths = {} THEN [files |-> disk, cache |-> cache, deleted |-> deleted]
    ELSE LET id == CHOOSE p \in paths : TRUE IN
         IF disk[id].mtime < cutoff
         THEN LET after == Delete(disk, cache, id)
              IN GcLoop(paths \ {id}, cutoff, after.files, after.cache, deleted + 1)
         ELSE GcLoop(paths \ {id}, cutoff, disk, cache, deleted)

\* gc: the clock counts hours, so the cutoff is now - max_age_hours
gc(max_age_hours) ==
    LET cutoff == now - max_age_hours
        after == GcLoop(DOMAIN files, cutoff, files, _checkpoints, 0)
    IN /\ files' = after.files
       /\ _checkpoints' = after.cache
       /\ response' = [op |-> "gc", arg |-> max_age_hours, cutoff |-> cutoff,
                       result |-> after.deleted]
       /\ UNCHANGED <<orchestrator_vars, now, issued>>

MaxAgeHours == {0, 1}

\* The process ends and a new one starts: CheckpointService() over the
\* same directory, with an empty cache
Restart ==
    /\ _checkpoints # EmptyDict
    /\ _checkpoints' = EmptyDict
    /\ response' = NoResponse
    /\ UNCHANGED <<orchestrator_vars, now, files, issued>>

\* The state field of a persisted record is rewritten from outside the
\* service, the checksum field is left as it was
Tamper(checkpoint_id, state) ==
    /\ checkpoint_id \in DOMAIN files
    /\ _compute_checksum(state) # files[checkpoint_id].data.checksum
    /\ files' = [files EXCEPT ![checkpoint_id].data.state = JsonDumps(state, FALSE),
                              ![checkpoint_id].mtime = now]
    /\ response' = NoResponse
    /\ UNCHANGED <<orchestrator_vars, now, _checkpoints, issued>>

\* The file of a checkpoint is removed by another process that uses the
\* same directory (its own delete or gc)
Unlink(checkpoint_id) ==
    /\ checkpoint_id \in DOMAIN files
    /\ files' = Drop(files, checkpoint_id)
    /\ response' = NoResponse
    /\ UNCHANGED <<orchestrator_vars, now, _checkpoints, issued>>

CheckpointNext ==
    \/ \E a \in AgentIds, s \in SessionIds, state \in States, p \in ParentIds :
          create(a, s, state, p)
    \/ \E id \in CheckpointIds : get(id)
    \/ \E id \in CheckpointIds : restore(id)
    \/ \E s \in SessionIds : list_by_session(s)
    \/ \E id \in CheckpointIds : delete(id)
    \/ \E h \in MaxAgeHours : gc(h)
    \/ Restart
    \/ \E id \in CheckpointIds, state \in States : Tamper(id, state)
    \/ \E id \in CheckpointIds : Unlink(id)
    \/ Tick

\* The runs of the checkpoint service
CheckpointSpec == Init /\ [][CheckpointNext]_vars

\* The calls on one service instance that alone uses its directory, where a
\* create may meet a storage error
InstanceNext ==
    \/ \E a \in AgentIds, s \in SessionIds, state \in States, p \in ParentIds :
          create(a, s, state, p)
    \/ create_fails
    \/ \E id \in CheckpointIds : get(id)
    \/ \E id \in CheckpointIds : restore(id)
    \/ \E s \in SessionIds : list_by_session(s)
    \/ \E id \in CheckpointIds : delete(id)
    \/ \E h \in MaxAgeHours : gc(h)
    \/ Tick

InstanceSpec == Init /\ [][InstanceNext]_vars

----------------------------------------------------------------------------
(* Vocabulary of the properties *)

\* the execution object call c runs on
ExecOf(c) == execs[calls[c].exec]

\* the tasks call c has launched
TasksOf(c) == DOMAIN calls[c].tasks

\* c is the one execute call made on its execution object
OnlyCall(c) == \A d \in Calls : d # c => calls[d].exec # calls[c].exec

\* the graph of an execution: depends_on of every node
DepsOf(execution) ==
    [n \in DOMAIN execution.nodes |-> execution.nodes[n].depends_on]

\* every depends_on id names a node of the graph
WellFormed(execution) ==
    \A n \in DOMAIN execution.nodes :
        execution.nodes[n].depends_on \subseteq DOMAIN execution.nodes

\* the nodes n depends on, directly or through other nodes
RECURSIVE Ancestors(_, _, _)
Ancestors(execution, n, k) ==
    IF k = 0 \/ n \notin DOMAIN execution.nodes THEN {}
    ELSE LET deps == execution.nodes[n].depends_on IN
         deps \cup UNION {Ancestors(execution, d, k - 1) : d \in deps}

Acyclic(execution) ==
    \A n \in DOMAIN execution.nodes :
        n \notin Ancestors(execution, n, Cardinality(DOMAIN execution.nodes))

\* some agent call made for the execution object has failed
SomeFailure(execution) ==
    \E n \in DOMAIN execution.nodes : execution.nodes[n].retry_count > 0

----------------------------------------------------------------------------
(* C1: whenever the agent of a node is being invoked, first attempt or retry,
   every node id of its depends_on has an entry in node_results of the
   execution the call runs on. *)
C1_DependenciesRecordedAtInvocation ==
    \A c \in Calls : \A n \in TasksOf(c) :
        calls[c].tasks[n].pc = "running" =>
            \A dep \in ExecOf(c).nodes[n].depends_on :
                dep \in DOMAIN ExecOf(c).node_results

\* the agent of C of the chain A -> B -> C is being invoked
C1_Witness ==
    \E c \in Calls :
        /\ DepsOf(ExecOf(c)) = Chain.deps
        /\ "C" \in TasksOf(c)
        /\ calls[c].tasks["C"].pc = "running"

----------------------------------------------------------------------------
(* C2: an execute call on a graph with a dependency cycle that has stalled
   (found no ready node while the graph is not exhausted) as often as the stall
   limit allows has ended with an error raised to its caller; it does not go on
   polling. *)
C2_DeadlockReported ==
    \A c \in Calls :
        (~Acyclic(ExecOf(c)) /\ calls[c].stalls >= MaxStalls) =>
            calls[c].pc = "raised"

----------------------------------------------------------------------------
(* C3: an execute call on an acyclic graph whose depends_on ids all name nodes
   of the graph terminates if no agent call fails, and the execution it returns
   has status COMPLETED, a result for every node, and a completed_at that is
   set and not earlier than started_at. *)
C3_Applies(c) ==
    IF c \in Calls THEN WellFormed(ExecOf(c)) /\ Acyclic(ExecOf(c)) ELSE FALSE

C3_ReturnedOrFailure(c) ==
    IF c \in Calls
    THEN calls[c].pc = "returned" \/ SomeFailure(ExecOf(c))
    ELSE FALSE

C3_ReturnsCompleted ==
    \A c \in Calls :
        (C3_Applies(c) /\ calls[c].pc = "returned") =>
            /\ calls[c].ret.status = "completed"
            /\ calls[c].ret.results = DOMAIN ExecOf(c).nodes
            /\ calls[c].ret.started_at # None
            /\ calls[c].ret.completed_at # None
            /\ calls[c].ret.completed_at >= calls[c].ret.started_at

C3_AcyclicRunCompletes ==
    /\ []C3_ReturnsCompleted
    /\ \A c \in 1..MaxOps : C3_Applies(c) ~> C3_ReturnedOrFailure(c)

\* execute has returned for the fan-out graph, no agent call having failed, at
\* a later clock reading than it started
C3_Witness ==
    \E c \in Calls :
        /\ DepsOf(ExecOf(c)) = FanOut.deps
        /\ calls[c].pc = "returned"
        /\ calls[c].ret.completed_at > calls[c].ret.started_at

----------------------------------------------------------------------------
(* C4: in the one execute call made on an execution, a node whose agent call
   has failed until its task gave up has had its agent invoked exactly
   max_retries times (max_retries >= 1 in every graph of the model); the
   execution then has status FAILED and no result for the node, and execute
   does not return: the error is raised, or about to be raised, to its
   caller. *)
C4_RetryExhaustion ==
    \A c \in Calls : \A n \in TasksOf(c) :
        (OnlyCall(c) /\ calls[c].tasks[n].pc = "raised") =>
            /\ calls[c].tasks[n].invoked = ExecOf(c).nodes[n].max_retries
            /\ n \notin DOMAIN ExecOf(c).node_results
            /\ ExecOf(c).status = "failed"
            /\ \/ calls[c].pc = "gathering" /\ n \in calls[c].wave
               \/ /\ calls[c].pc = "raised"
                  /\ calls[c].err.node \in TasksOf(c)
                  /\ calls[c].tasks[calls[c].err.node].err = calls[c].err

\* the agent of a node with max_retries = 2 has failed twice and execute has
\* raised the error of the second attempt
C4_Witness ==
    \E c \in Calls : \E n \in TasksOf(c) :
        /\ OnlyCall(c)
        /\ ExecOf(c).nodes[n].max_retries = 2
        /\ calls[c].tasks[n].pc = "raised"
        /\ calls[c].pc = "raised"
        /\ calls[c].err = AgentError(c, n, 2)

----------------------------------------------------------------------------
(* C5: in the one execute call made on an execution, failures of a node's
   agent within its retry budget stay invisible to the caller: a task gives
   up only after max_retries failed invocations, execute raises only the
   error of a task that gave up, a node whose agent succeeded after k failed
   invocations has as its entry of node_results the output of invocation
   k + 1, and an execute that returns returns status COMPLETED. *)
C5_RetryThenSucceed ==
    \A c \in Calls : OnlyCall(c) =>
        /\ \A n \in TasksOf(c) :
              LET task == calls[c].tasks[n] IN
              /\ task.pc = "raised" => task.invoked >= ExecOf(c).nodes[n].max_retries
              /\ task.pc = "done" =>
                    /\ task.invoked <= ExecOf(c).nodes[n].max_retries
                    /\ n \in DOMAIN ExecOf(c).node_results
                    /\ ExecOf(c).node_results[n] = AgentResult(c, n, task.invoked)
                    /\ calls[c].err.node # n
        /\ calls[c].pc = "raised" =>
              /\ calls[c].err.node \in TasksOf(c)
              /\ calls[c].tasks[calls[c].err.node].pc = "raised"
        /\ calls[c].pc = "returned" => calls[c].ret.status = "completed"

\* the agent of the node of the one-node graph failed twice and succeeded on
\* the third invocation (max_retries = 3), and execute returned COMPLETED
C5_Witness ==
    \E c \in Calls :
        /\ OnlyCall(c)
        /\ DepsOf(ExecOf(c)) = Solo.deps
        /\ calls[c].pc = "returned"
        /\ calls[c].ret.status = "completed"
        /\ calls[c].tasks["A"].invoked = 3
        /\ ExecOf(c).nodes["A"].retry_count = 2
        /\ ExecOf(c).node_results["A"] = AgentResult(c, "A", 3)

----------------------------------------------------------------------------
(* C6: for one execution, each node is written to node_results at most once
   and no two tasks that write the same node exist side by side: of two
   tasks launched for the same node of the same execution, one has given up
   without a result. *)
C6_NodeWrittenAtMostOnce ==
    \A c, d \in Calls : \A n \in NodeIds :
        (c # d /\ calls[c].exec = calls[d].exec
              /\ n \in TasksOf(c) /\ n \in TasksOf(d)) =>
            \/ calls[c].tasks[n].pc = "raised"
            \/ calls[d].tasks[n].pc = "raised"

----------------------------------------------------------------------------
(* C7: the status of an execution only moves along PENDING -> RUNNING ->
   {COMPLETED, FAILED, CANCELLED}; a COMPLETED or FAILED execution never
   changes status again. *)
C7_StatusOnlyMovesForward ==
    [][\A r \in DOMAIN execs :
          execs'[r].status # execs[r].status =>
              \/ execs[r].status = "pending" /\ execs'[r].status = "running"
              \/ /\ execs[r].status = "running"
                 /\ execs'[r].status \in {"completed", "failed", "cancelled"}]_vars

----------------------------------------------------------------------------
(* C8: once a node of the registered execution of a subgraph has exhausted its
   retries in the one execute call made on it, what get_status returns for
   the subgraph has status failed and holds the error that was raised. *)
C8_FailureRetrievable ==
    (/\ response.op = "get_status"
     /\ response.arg \in DOMAIN subgraphs) =>
        \A c \in Calls : \A n \in TasksOf(c) :
            (/\ OnlyCall(c)
             /\ calls[c].exec = subgraphs[response.arg]
             /\ calls[c].tasks[n].pc = "raised") =>
                /\ response.result.status = "failed"
                /\ "error" \in DOMAIN response.result
                /\ response.result.error = calls[c].tasks[n].err

----------------------------------------------------------------------------
(* C9: get_status changes nothing; for an id that is not registered it
   returns the not-found marker, and otherwise a snapshot of the registered
   execution in which nodes_completed is the number of nodes that have a
   result, total_nodes the number of nodes, and
   0 <= nodes_completed <= total_nodes. *)
C9_Snapshot ==
    response.op = "get_status" =>
        IF response.arg \notin DOMAIN subgraphs
        THEN response.result = NotFound
        ELSE LET execution == execs[subgraphs[response.arg]]
                 snapshot == response.result
             IN /\ snapshot # NotFound
                /\ snapshot.subgraph_id = response.arg
                /\ snapshot.status = execution.status
                /\ snapshot.nodes_completed =
                      Cardinality({n \in DOMAIN execution.nodes :
                                      n \in DOMAIN execution.node_results})
                /\ snapshot.total_nodes = Cardinality(DOMAIN execution.nodes)
                /\ 0 <= snapshot.nodes_completed
                /\ snapshot.nodes_completed <= snapshot.total_nodes

C9_StatusIsReadOnly ==
    /\ []C9_Snapshot
    /\ [][response'.op = "get_status" =>
             UNCHANGED <<subgraphs, execs, calls, now>>]_vars

\* get_status answers while execute is waiting for the second wave of the
\* fan-out graph, one of whose tasks has recorded its result
C9_Witness ==
    /\ response.op = "get_status"
    /\ response.result # NotFound
    /\ response.result.nodes_completed = 2
    /\ response.result.total_nodes = 3
    /\ \E c \in Calls :
          /\ calls[c].exec = subgraphs[response.arg]
          /\ calls[c].pc = "gathering"

----------------------------------------------------------------------------
(* C10: create_subgraph(id, ...) leaves under id a new execution with status
   PENDING, empty state and empty node_results, whatever was registered
   under id before; it changes no execution that existed and leaves every
   other id registered to the execution it was registered to. *)
C10_Fresh ==
    response.op = "create_subgraph" =>
        /\ response.arg \in DOMAIN subgraphs
        /\ subgraphs[response.arg] = Len(execs)
        /\ LET execution == execs[subgraphs[response.arg]] IN
              /\ execution.subgraph_id = response.arg
              /\ execution.status = "pending"
              /\ execution.state = EmptyDict
              /\ execution.node_results = EmptyDict
              /\ execution.started_at = None
              /\ execution.completed_at = None

C10_CreateSubgraphFrame ==
    /\ []C10_Fresh
    /\ [][response'.op = "create_subgraph" =>
             /\ \A r \in DOMAIN execs : execs'[r] = execs[r]
             /\ DOMAIN subgraphs' = DOMAIN subgraphs \cup {response'.arg}
             /\ \A sid \in DOMAIN subgraphs :
                   sid # response'.arg => subgraphs'[sid] = subgraphs[sid]]_vars

\* create_subgraph has replaced an execution that had a result and was not
\* PENDING
C10_Witness ==
    /\ response.op = "create_subgraph"
    /\ \E r \in DOMAIN execs :
          /\ r # subgraphs[response.arg]
          /\ execs[r].subgraph_id = response.arg
          /\ execs[r].node_results # EmptyDict
          /\ execs[r].status # "pending"

----------------------------------------------------------------------------
(* C11: execute of a subgraph id that create_subgraph never registered raises
   the lookup error (ValueError "Subgraph ... not found"); the step changes
   neither the registry nor any execution, starts no call and no task, and
   every execute call that does start runs on the execution registered
   under some id. *)
C11_RaisedForUnregistered ==
    (response.op = "execute" /\ response.raised = "ValueError") =>
        response.arg \notin DOMAIN subgraphs

C11_RejectionStep ==
    /\ (response'.op = "execute" /\ response'.raised = "ValueError")
          => UNCHANGED <<subgraphs, execs, calls, now>>
    /\ (Len(calls') > Len(calls))
          => (\E sid \in DOMAIN subgraphs :
                 calls'[Len(calls')].exec = subgraphs[sid])

----------------------------------------------------------------------------
(* C12: in the one execute call made on a graph where B and C each depend
   only on A, the waves are {A} and then {B, C}: B has a task exactly when C
   has one, they have tasks only once A's result is recorded, and the wave
   dispatched after A's is {B, C}.  A state in which the agent invocations
   of B and of C are both in progress is reachable. *)
C12_FanOutWave ==
    \A c \in Calls :
        (OnlyCall(c) /\ DepsOf(ExecOf(c)) = FanOut.deps) =>
            /\ ("B" \in TasksOf(c)) <=> ("C" \in TasksOf(c))
            /\ "B" \in TasksOf(c) => "A" \in DOMAIN ExecOf(c).node_results
            /\ calls[c].wave \in {{}, {"A"}, {"B", "C"}}
            /\ (calls[c].pc = "gathering" /\ calls[c].wave # {"A"}) =>
                  calls[c].wave = {"B", "C"}

\* the agents of B and of C are both being invoked by the same call
C12_Witness ==
    \E c \in Calls :
        /\ OnlyCall(c)
        /\ DepsOf(ExecOf(c)) = FanOut.deps
        /\ "A" \in DOMAIN ExecOf(c).node_results
        /\ {"B", "C"} \subseteq TasksOf(c)
        /\ calls[c].tasks["B"].pc = "running"
        /\ calls[c].tasks["C"].pc = "running"

----------------------------------------------------------------------------
(* C13: restore of an id returns the state that was passed to the create
   which returned the id, and the checksum it verifies is the one create
   computed, whenever the record of that create is still there (in the cache
   or on disk) and its file, if there, holds what create wrote. *)
C13_RoundTrip ==
    (/\ response.op = "restore"
     /\ response.arg \in DOMAIN issued
     /\ response.arg \in DOMAIN files \cup DOMAIN _checkpoints
     /\ response.arg \in DOMAIN files =>
           files[response.arg].data.state =
               JsonDumps(issued[response.arg].state, FALSE))
    => /\ response.result.returned = "state"
       /\ DictEq(response.result.state, issued[response.arg].state)
       /\ response.result.verified =
              _compute_checksum(issued[response.arg].state)

----------------------------------------------------------------------------
(* C14: when the file of a checkpoint holds a state that does not match its
   checksum field, restore of its id raises the integrity error and returns
   no state, whether the checkpoint is in the cache or not. *)
C14_TamperedRestoreFails ==
    (/\ response.op = "restore"
     /\ response.arg \in DOMAIN files
     /\ _compute_checksum(JsonLoads(files[response.arg].data.state))
            # files[response.arg].data.checksum)
    => response.result.returned = "ValueError"

----------------------------------------------------------------------------
(* C15: delete(id) returns true exactly when id had a record in the cache or
   on disk, and after it id has a record in neither, so that get(id) and
   restore(id) return None. *)
C15_DeleteStep ==
    response'.op = "delete" =>
        LET id == response'.arg IN
        /\ response'.result <=> (id \in DOMAIN files \cup DOMAIN _checkpoints)
        /\ id \notin DOMAIN files'
        /\ id \notin DOMAIN _checkpoints'

C15_DeleteRemovesEverywhere == [][C15_DeleteStep]_vars

----------------------------------------------------------------------------
(* C16: gc(max_age_hours) removes exactly the files last modified before
   now - max_age_hours, leaves every other file as it was, leaves none of the
   removed ids in the cache and every other cache entry as it was, and
   returns the number of files it removed. *)
C16_GcStep ==
    response'.op = "gc" =>
        LET cutoff == now - response'.arg
            old == {id \in DOMAIN files : files[id].mtime < cutoff}
        IN /\ DOMAIN files' = DOMAIN files \ old
           /\ \A id \in DOMAIN files' : files'[id] = files[id]
           /\ DOMAIN _checkpoints' = DOMAIN _checkpoints \ old
           /\ \A id \in DOMAIN _checkpoints' : _checkpoints'[id] = _checkpoints[id]
           /\ response'.result = Cardinality(old)

C16_GcThreshold == [][C16_GcStep]_vars

\* gc has removed one checkpoint, from the disk and from the cache, and has
\* kept a newer one
C16_Witness ==
    /\ response.op = "gc"
    /\ response.result = 1
    /\ Cardinality(DOMAIN files) = 1
    /\ DOMAIN _checkpoints = DOMAIN files
    /\ \A id \in DOMAIN files : files[id].mtime >= response.cutoff
    /\ \E id \in DOMAIN issued : id \notin DOMAIN files

----------------------------------------------------------------------------
(* C17: create returns an id that no stored checkpoint has, and leaves the
   record of every stored checkpoint as it was. *)
C17_CreateStep ==
    response'.op = "create" =>
        /\ response'.result.id \notin DOMAIN files
        /\ \A id \in DOMAIN files : files'[id] = files[id]

C17_AppendOnly == [][C17_CreateStep]_vars

----------------------------------------------------------------------------
(* C18: list_by_session(s) returns one entry for each file whose session id
   is s and no other entry, each entry carrying the id, session id,
   created_at and checksum of its file, in an order in which created_at never
   increases; the call changes neither the files nor the cache. *)
C18_Listing ==
    response.op = "list_by_session" =>
        LET result == response.result
            found == {id \in DOMAIN files :
                         files[id].data.session_id = response.arg}
        IN /\ {result[i].id : i \in DOMAIN result} = found
           /\ Len(result) = Cardinality(found)
           /\ \A i \in DOMAIN result :
                 /\ result[i].session_id = response.arg
                 /\ result[i].created_at = files[result[i].id].data.created_at
                 /\ result[i].state_hash = files[result[i].id].data.checksum
           /\ \A i, j \in DOMAIN result :
                 i < j => result[i].created_at >= result[j].created_at

C18_ListStep ==
    response'.op = "list_by_session" => UNCHANGED <<files, _checkpoints>>

C18_ListBySession ==
    /\ []C18_Listing
    /\ [][C18_ListStep]_vars

\* the listing of a session has two checkpoints created at different times
C18_Witness ==
    /\ response.op = "list_by_session"
    /\ Len(response.result) = 2
    /\ response.result[1].created_at > response.result[2].created_at

----------------------------------------------------------------------------
(* C19: every entry list_by_session returns has as parent_checkpoint_id the
   parent_id that was passed to the create of its checkpoint, and none when
   none was passed. *)
C19_ParentRecorded ==
    response.op = "list_by_session" =>
        \A i \in DOMAIN response.result :
            response.result[i].parent_checkpoint_id =
                issued[response.result[i].id].parent_id

----------------------------------------------------------------------------
(* C20: get(id) returns the cache entry of id when there is one; when there
   is none and id has a file it returns the checkpoint of the file and id
   has a cache entry afterwards; when id has neither it returns None; in the
   first and the last case nothing changes. *)
C20_GetStep ==
    response'.op = "get" =>
        LET id == response'.arg IN
        IF id \in DOMAIN _checkpoints
        THEN /\ response'.result = _checkpoints[id]
             /\ UNCHANGED <<files, _checkpoints>>
        ELSE IF id \in DOMAIN files
             THEN /\ response'.result = LoadCheckpoint(files[id].data)
                  /\ id \in DOMAIN _checkpoints'
             ELSE /\ response'.result = NoCheckpoint
                  /\ UNCHANGED <<files, _checkpoints>>

C20_GetRepopulatesCache == [][C20_GetStep]_vars

----------------------------------------------------------------------------
(* C21: within one execute call a task that is not of the current wave is
   over (it returned or raised), and when the call has returned or raised
   every task it launched is over. *)
C21_WaveBarrier ==
    \A c \in Calls :
        /\ \A n \in TasksOf(c) \ calls[c].wave :
              calls[c].tasks[n].pc \in {"done", "raised"}
        /\ calls[c].pc \in {"returned", "raised"} =>
              \A n \in TasksOf(c) : calls[c].tasks[n].pc \in {"done", "raised"}

----------------------------------------------------------------------------
(* C22: a node that has an entry in node_results has status COMPLETED, and
   a node whose retry counter has reached max_retries without a result has
   status FAILED. *)
C22_NodeStatusFollowsOutcome ==
    \A r \in DOMAIN execs : \A n \in DOMAIN execs[r].nodes :
        /\ n \in DOMAIN execs[r].node_results =>
              execs[r].nodes[n].status = "completed"
        /\ (/\ n \notin DOMAIN execs[r].node_results
            /\ execs[r].nodes[n].retry_count >= execs[r].nodes[n].max_retries)
           => execs[r].nodes[n].status = "failed"

----------------------------------------------------------------------------
(* C23: get_status called with the id field of a registered execution
   returns the snapshot of that execution, not the not-found marker. *)
C23_StatusByExecutionId ==
    response.op = "get_status" =>
        \A sid \in DOMAIN subgraphs :
            execs[subgraphs[sid]].id = response.arg =>
                /\ response.result # NotFound
                /\ response.result.id = response.arg

----------------------------------------------------------------------------
(* C24: when an agent call fails the retry counter of the node goes up by
   one; if it is then below max_retries the task sleeps 2^retry_count (the
   value after the increment) before the next attempt, and otherwise it
   raises without sleeping.  In the one execute call made on an execution
   the sleeps of a node are 2, 4, 8, ... in this order. *)
C24_BackoffStep ==
    \A c \in Calls : \A n \in TasksOf(c) :
        (calls[c].tasks[n].pc = "running" /\ calls'[c].tasks[n].pc # "running") =>
            LET before == ExecOf(c).nodes[n]
                after == execs'[calls[c].exec].nodes[n]
                task == calls'[c].tasks[n]
            IN \/ task.pc = "done" /\ after.retry_count = before.retry_count
               \/ /\ task.pc = "backoff"
                  /\ after.retry_count = before.retry_count + 1
                  /\ after.retry_count < after.max_retries
                  /\ task.delay = 2 ^ after.retry_count
               \/ /\ task.pc = "raised"
                  /\ after.retry_count = before.retry_count + 1
                  /\ after.retry_count >= after.max_retries
                  /\ task.delay = 0

C24_SuccessiveWaits ==
    \A c \in Calls : \A n \in TasksOf(c) :
        IF calls[c].tasks[n].pc = "backoff"
        THEN /\ calls[c].tasks[n].delay >= 2
             /\ OnlyCall(c) => calls[c].tasks[n].delay = 2 ^ calls[c].tasks[n].invoked
        ELSE calls[c].tasks[n].delay = 0

C24_ExponentialBackoff ==
    /\ []C24_SuccessiveWaits
    /\ [][C24_BackoffStep]_vars

\* the node of the one-node graph sleeps for the second time, 4 units
C24_Witness ==
    \E c \in Calls :
        /\ OnlyCall(c)
        /\ DepsOf(ExecOf(c)) = Solo.deps
        /\ "A" \in TasksOf(c)
        /\ calls[c].tasks["A"].pc = "backoff"
        /\ calls[c].tasks["A"].delay = 4
        /\ ExecOf(c).nodes["A"].retry_count = 2

----------------------------------------------------------------------------
(* C25: the status of every execution is PENDING, RUNNING, COMPLETED or
   FAILED in every reachable state; it is never WAITING or CANCELLED. *)
C25_StatusReachable ==
    \A r \in DOMAIN execs :
        execs[r].status \in {"pending", "running", "completed", "failed"}

\* an execute call sleeps in the poll loop (no node is ready, the graph is
\* not exhausted) and the execution is RUNNING
C25_Witness ==
    \E c \in Calls :
        /\ calls[c].pc = "sleeping"
        /\ calls[c].stalls >= 1
        /\ ExecOf(c).status = "running"

----------------------------------------------------------------------------
(* C27: an execution whose status is COMPLETED has an entry in node_results
   for every one of its nodes. *)
C27_CompletedHasAllResults ==
    \A r \in DOMAIN execs :
        execs[r].status = "completed" =>
            \A n \in DOMAIN execs[r].nodes : n \in DOMAIN execs[r].node_results

\* an execution is COMPLETED after an agent call of it failed and was retried
C27_Witness ==
    \E r \in DOMAIN execs :
        /\ execs[r].status = "completed"
        /\ SomeFailure(execs[r])
        /\ execs[r].completed_at # None

----------------------------------------------------------------------------
(* C26: once an execute call has returned or raised, its tasks do not move
   any more, and as long as every execute call made on its execution has
   returned or raised and no new one is made, the node_results and the
   status of the execution do not change. *)
C26_Quiescent ==
    \A c \in Calls :
        calls[c].pc \in {"returned", "raised"} =>
            /\ calls'[c].tasks = calls[c].tasks
            /\ (\A d \in DOMAIN calls' :
                    calls'[d].exec = calls[c].exec =>
                        /\ d \in Calls
                        /\ calls[d].pc \in {"returned", "raised"})
               => /\ execs'[calls[c].exec].node_results = ExecOf(c).node_results
                  /\ execs'[calls[c].exec].status = ExecOf(c).status

C26_NothingRunsAfterReturn == [][C26_Quiescent]_vars

----------------------------------------------------------------------------
(* C30: the input handed to the agent binds key state to a copy of the shared
   state of the execution and every depends_on id to the recorded result of
   that dependency, and the shared state equals the initial_state of an
   execute call for as long as that call is in progress. *)
C30_Step ==
    /\ \A c \in DOMAIN calls' :
          calls'[c].pc \notin {"returned", "raised"} =>
              execs'[calls'[c].exec].state = calls'[c].initial_state
    /\ \A c \in Calls :
          \A n \in TasksOf(c) :
              (/\ calls[c].tasks[n].pc # "running"
               /\ calls'[c].tasks[n].pc = "running")
              => LET execution == ExecOf(c)
                     input == calls'[c].tasks[n].input
                 IN /\ input.state = calls[c].initial_state
                    /\ DOMAIN input.deps = execution.nodes[n].depends_on
                    /\ \A dep \in DOMAIN input.deps :
                          input.deps[dep] = execution.node_results[dep]

C30_InputAndSharedState == [][C30_Step]_vars

----------------------------------------------------------------------------
(* C29: an execute call on an execution on which an earlier execute call has
   returned COMPLETED returns COMPLETED at once: it creates no task and so
   invokes no agent, and it leaves node_results, the retry counters and the
   frames of the other calls as they were. *)
C29_CompletedBefore(r) ==
    \E d \in Calls :
        /\ calls[d].exec = r
        /\ calls[d].pc = "returned"
        /\ calls[d].ret.status = "completed"

C29_ReexecuteStep ==
    Len(calls') = Len(calls) + 1 =>
        LET c == Len(calls')
            r == calls'[c].exec
        IN C29_CompletedBefore(r) =>
              /\ calls'[c].pc = "returned"
              /\ calls'[c].ret.status = "completed"
              /\ calls'[c].tasks = EmptyDict
              /\ execs'[r].status = "completed"
              /\ execs'[r].node_results = execs[r].node_results
              /\ execs'[r].nodes = execs[r].nodes
              /\ \A d \in Calls : calls'[d] = calls[d]

C29_ReexecuteCompletedIsNoOp == [][C29_ReexecuteStep]_vars

\* a node was retried, the run completed, and a second execute has returned
C29_Witness ==
    /\ Len(calls) = 2
    /\ calls[1].exec = calls[2].exec
    /\ calls[1].pc = "returned"
    /\ calls[1].ret.status = "completed"
    /\ calls[2].pc = "returned"
    /\ calls[2].tasks = EmptyDict
    /\ calls[2].stalls = 0
    /\ calls[2].initial_state # calls[1].initial_state
    /\ \E n \in DOMAIN ExecOf(1).nodes : ExecOf(1).nodes[n].retry_count > 0
    /\ DOMAIN ExecOf(1).node_results = DOMAIN ExecOf(1).nodes

----------------------------------------------------------------------------
(* C28: on one service instance, where a create may fail with a storage
   error, after every call each id of the cache has a file that holds the
   serialization of the cached state and the cached checksum, and a create
   that failed has left the cache as it was. *)
C28_CacheIsDurable ==
    \A id \in DOMAIN _checkpoints :
        /\ id \in DOMAIN files
        /\ files[id].data # Truncated
        /\ files[id].data.state = JsonDumps(_checkpoints[id].state, FALSE)
        /\ files[id].data.checksum = _checkpoints[id].checksum

C28_Step ==
    /\ C28_CacheIsDurable'
    /\ (response'.op = "create" /\ "raised" \in DOMAIN response')
       => _checkpoints' = _checkpoints

C28_CacheBackedByStorage == [][C28_Step]_vars

====
